---- MODULE Spec2Model ----
(***************************************************************************)
(* Model of the audit server (server.go): the startup sequence that        *)
(* installs the audit table, the trigger function and the triggers, the    *)
(* row trigger audit_trigger_func that the database runs on every write to *)
(* an instrumented table, and the three HTTP handlers getAuditLogs,        *)
(* getAuditLog and revertChange.                                           *)
(*                                                                         *)
(* Values.  A row of a target table is the pair <<id, name>>; a JSONB      *)
(* snapshot (row_to_json) is that pair, and SQL NULL is <<>>.  Text that    *)
(* arrives in a URL is a sequence of tokens, so that parsing it (Atoi) and *)
(* splicing it into a statement (Sprintf) are different things.            *)
(***************************************************************************)
EXTENDS Integers, Sequences, FiniteSets, TLC

VARIABLES pc, config, db, tx, clock, last

vars == <<pc, config, db, tx, clock, last>>

\* ---------------------------------------------------------------- bounds
\* longest target_tables list read from the config file
MaxTables == 2
\* row ids of the target tables are 1..MaxRowId
MaxRowId == 1
\* client transactions begun (the clock counts them)
MaxTime == 2

\* ---------------------------------------------------------------- values
TableNames == {"users", "orders"}
Names      == {"A", "B"}
RowIds     == 1..MaxRowId
Clients    == {"c1"}
NoRow      == "-"
NULL       == <<>>
NoTx       == 0 - 1

\* row_to_json of the row with key i in the table content rows
Snapshot(rows, i) == IF rows[i] = NoRow THEN NULL ELSE <<i, rows[i]>>

\* all sequences over S of length at most n
RECURSIVE SeqsUpTo(_, _)
SeqsUpTo(S, n) ==
    IF n = 0 THEN {<<>>}
    ELSE LET shorter == SeqsUpTo(S, n - 1)
         IN shorter \cup {Append(s, x) : s \in shorter, x \in S}

\* the target_tables lists a config file may hold
TableLists == SeqsUpTo(TableNames, MaxTables) \ {<<>>}

\* The relation target_tables is read by revertChange and created nowhere in
\* the program: it is absent, or holds whatever an operator put there.
Registrations ==
    { [exists |-> FALSE, rows |-> {}],
      [exists |-> TRUE,  rows |-> {}],
      [exists |-> TRUE,  rows |-> {<<1, "users">>, <<2, "orders">>}] }

\* last is what the latest step reported to whoever asked for it (an HTTP
\* response, a command completion, a log line); it is taken away (Deliver)
\* before the next step starts.
Event(op, arg, status, stage, body) ==
    [op |-> op, arg |-> arg, status |-> status, stage |-> stage, body |-> body]

Nothing == Event("none", <<>>, 0, "", <<>>)

Idle == last = Nothing

\* a revert request that has been received and not yet answered (status 0)
InProgress == last.op = "revert" /\ last.status = 0

Deliver ==
    /\ last # Nothing
    /\ ~InProgress
    /\ last' = Nothing
    /\ UNCHANGED <<pc, config, db, tx, clock>>

\* ---------------------------------------------------------------- startup
Init ==
    /\ pc = "loadConfig"
    /\ config = [TargetTables |-> <<>>]
    /\ \E reg \in Registrations :
          db = [ audit_table   |-> FALSE,
                 trigger_func  |-> FALSE,
                 triggers      |-> {},
                 tables        |-> [t \in TableNames |-> [i \in RowIds |-> NoRow]],
                 audit_logs    |-> <<>>,
                 seq           |-> 0,
                 target_tables |-> reg ]
    /\ tx = [c \in Clients |-> NoTx]
    /\ clock = 0
    /\ last = Nothing

Fatal(what) ==
    /\ pc' = "fatal"
    /\ last' = Event("fatal", <<what>>, 0, "", <<>>)

loadConfig ==
    /\ Idle
    /\ pc = "loadConfig"
    /\ \/ \E tt \in TableLists :
             /\ config' = [TargetTables |-> tt]
             /\ pc' = "initDB"
             /\ last' = Event("startup", <<"loadConfig">>, 0, "", <<>>)
       \/ Fatal("loadConfig") /\ UNCHANGED config
    /\ UNCHANGED <<db, tx, clock>>

initDB ==
    /\ Idle
    /\ pc = "initDB"
    /\ \/ /\ pc' = "createAuditTable"
          /\ last' = Event("startup", <<"initDB">>, 0, "", <<>>)
       \/ Fatal("initDB")
    /\ UNCHANGED <<config, db, tx, clock>>

\* CREATE TABLE IF NOT EXISTS audit_logs
createAuditTable ==
    /\ Idle
    /\ pc = "createAuditTable"
    /\ db' = [db EXCEPT !.audit_table = TRUE]
    /\ pc' = "createTriggerFunction"
    /\ last' = Event("startup", <<"createAuditTable">>, 0, "", <<>>)
    /\ UNCHANGED <<config, tx, clock>>

\* CREATE OR REPLACE FUNCTION audit_trigger_func
createTriggerFunction ==
    /\ Idle
    /\ pc = "createTriggerFunction"
    /\ db' = [db EXCEPT !.trigger_func = TRUE]
    /\ pc' = "createTriggers"
    /\ last' = Event("startup", <<"createTriggerFunction">>, 0, "", <<>>)
    /\ UNCHANGED <<config, tx, clock>>

\* The loop of createTriggers over the remaining tables: every round drops
\* the trigger of the table users, then creates the trigger of the round's
\* table; CREATE TRIGGER fails when that table already has audit_trigger and
\* log.Fatalf ends the process with the rounds before it applied.
RECURSIVE InstallTriggers(_, _)
InstallTriggers(targetTables, triggers) ==
    IF targetTables = <<>> THEN [err |-> FALSE, triggers |-> triggers]
    ELSE LET table   == Head(targetTables)
             dropped == triggers \ {"users"}
         IN IF table \in dropped
            THEN [err |-> TRUE, triggers |-> dropped]
            ELSE InstallTriggers(Tail(targetTables), dropped \cup {table})

createTriggers ==
    /\ Idle
    /\ pc = "createTriggers"
    /\ LET r == InstallTriggers(config.TargetTables, db.triggers)
       IN /\ db' = [db EXCEPT !.triggers = r.triggers]
          /\ IF r.err THEN Fatal("createTriggers")
             ELSE /\ pc' = "startServer"
                  /\ last' = Event("startup", <<"createTriggers">>, 0, "", <<>>)
    /\ UNCHANGED <<config, tx, clock>>

startServer ==
    /\ Idle
    /\ pc = "startServer"
    /\ pc' = "serving"
    /\ last' = Event("startup", <<"startServer">>, 0, "", <<>>)
    /\ UNCHANGED <<config, db, tx, clock>>

\* ------------------------------------------------- writes to target tables
\* audit_trigger_func with the INSERT branch also storing row_to_json(NEW)
\* as old_value
audit_trigger_func_BothImages(d, TG_OP, OLDrow, NEWrow, current_user, now) ==
    LET rec == [id |-> d.seq + 1,
                target_table_id |-> IF TG_OP = "INSERT" THEN NEWrow[1] ELSE OLDrow[1],
                username |-> current_user,
                old_value |-> IF TG_OP = "INSERT" THEN NEWrow ELSE OLDrow,
                new_value |-> IF TG_OP = "DELETE" THEN NULL ELSE NEWrow,
                operation |-> TG_OP, timestamp |-> now]
    IN [d EXCEPT !.audit_logs = Append(@, rec), !.seq = @ + 1]

\* The body of audit_trigger_func: one INSERT INTO audit_logs per row event.
\* id comes from the SERIAL sequence, timestamp from CURRENT_TIMESTAMP (the
\* start time of the writing transaction).
audit_trigger_func(d, TG_OP, OLDrow, NEWrow, current_user, now) ==
    LET rec ==
          IF TG_OP = "UPDATE" THEN
              [id |-> d.seq + 1, target_table_id |-> OLDrow[1], username |-> current_user,
               old_value |-> OLDrow, new_value |-> NEWrow, operation |-> TG_OP, timestamp |-> now]
          ELSE IF TG_OP = "DELETE" THEN
              [id |-> d.seq + 1, target_table_id |-> OLDrow[1], username |-> current_user,
               old_value |-> OLDrow, new_value |-> NULL, operation |-> TG_OP, timestamp |-> now]
          ELSE
              [id |-> d.seq + 1, target_table_id |-> NEWrow[1], username |-> current_user,
               old_value |-> NULL, new_value |-> NEWrow, operation |-> TG_OP, timestamp |-> now]
    IN IF TG_OP \in {"UPDATE", "DELETE", "INSERT"}
       THEN [d EXCEPT !.audit_logs = Append(@, rec), !.seq = @ + 1]
       ELSE d

\* One row write on table t by the session current_user, with the AFTER ...
\* FOR EACH ROW trigger when the table has one.
WriteRow(d, t, TG_OP, i, n, current_user, now) ==
    LET OLDrow  == Snapshot(d.tables[t], i)
        value   == IF TG_OP = "DELETE" THEN NoRow ELSE n
        written == [d EXCEPT !.tables[t][i] = value]
        NEWrow  == Snapshot(written.tables[t], i)
    IN IF t \in d.triggers
       THEN audit_trigger_func(written, TG_OP, OLDrow, NEWrow, current_user, now)
       ELSE written

\* the statement touches a row: INSERT of a free key, UPDATE or DELETE of a
\* present one
Applies(d, t, TG_OP, i) ==
    IF TG_OP = "INSERT" THEN d.tables[t][i] = NoRow ELSE d.tables[t][i] # NoRow

\* BEGIN of a client session: CURRENT_TIMESTAMP of the transaction is the
\* time it began.
ClientBegin(c) ==
    /\ Idle
    /\ tx[c] = NoTx
    /\ clock < MaxTime
    /\ clock' = clock + 1
    /\ tx' = [tx EXCEPT ![c] = clock + 1]
    /\ last' = Event("begin", <<c>>, 0, "", <<>>)
    /\ UNCHANGED <<pc, config, db>>

\* The row write of an open client transaction and its COMMIT or ROLLBACK.
\* A rollback undoes the row and the audit record, never the sequence.
\* audit_trigger_func runs with the rights of the writing session: when its
\* INSERT INTO audit_logs is refused (denied), the error is the row
\* statement's, the transaction is aborted and its COMMIT is a rollback.
ClientWrite(c, t, TG_OP, i, n, commit, denied) ==
    /\ Idle
    /\ tx[c] # NoTx
    /\ Applies(db, t, TG_OP, i)
    /\ denied => t \in db.triggers
    /\ LET written == WriteRow(db, t, TG_OP, i, n, c, tx[c])
       IN db' = IF denied THEN db
                ELSE IF commit THEN written
                ELSE [db EXCEPT !.seq = written.seq]
    /\ tx' = [tx EXCEPT ![c] = NoTx]
    /\ last' = Event("write", <<t, TG_OP, i>>, IF commit /\ ~denied THEN 1 ELSE 0,
                     IF denied THEN "capture" ELSE "", <<Snapshot(db.tables[t], i)>>)
    /\ UNCHANGED <<pc, config, clock>>

\* ------------------------------------------------------------ HTTP: parsing
Digits == {"0", "1", "2", "3", "4", "5", "6", "7", "8", "9"}

DigitVal(ch) ==
    CASE ch = "0" -> 0 [] ch = "1" -> 1 [] ch = "2" -> 2 [] ch = "3" -> 3
      [] ch = "4" -> 4 [] ch = "5" -> 5 [] ch = "6" -> 6 [] ch = "7" -> 7
      [] ch = "8" -> 8 [] OTHER -> 9

RECURSIVE ParseDigits(_, _)
ParseDigits(s, acc) ==
    IF s = <<>> THEN acc ELSE ParseDigits(Tail(s), acc * 10 + DigitVal(Head(s)))

\* strconv.Atoi: an optional sign, then one or more decimal digits
Atoi(s) ==
    LET signed == s # <<>> /\ Head(s) \in {"+", "-"}
        body   == IF signed THEN Tail(s) ELSE s
    IN IF body = <<>> \/ \E k \in 1..Len(body) : body[k] \notin Digits
       THEN [err |-> TRUE, n |-> 0]
       ELSE [err |-> FALSE,
             n   |-> IF signed /\ Head(s) = "-" THEN 0 - ParseDigits(body, 0)
                     ELSE ParseDigits(body, 0)]

\* the {id} path segments a client sends
IdInputs == {<<"1">>, <<"2">>, <<"9">>, <<"x">>}

\* Scan of a JSONB column into a json.RawMessage field: database/sql has no
\* conversion of NULL into that type, the scan of the row fails.
ScanRawMessage(v) == [err |-> v = NULL, value |-> v]

\* Scan of a row of audit_logs into AuditLog / the locals of revertChange
ScanAuditLog(rec) ==
    [err |-> ScanRawMessage(rec.old_value).err \/ ScanRawMessage(rec.new_value).err,
     log |-> rec]

\* SELECT ... FROM audit_logs WHERE id = $1
SelectById(logs, id) == {k \in 1..Len(logs) : logs[k].id = id}

\* ---------------------------------------------------- GET /api/logs/{id}
getAuditLogResult(d, p) ==
    LET id   == Atoi(p)
        hits == SelectById(d.audit_logs, id.n)
    IN IF id.err THEN Event("get", p, 400, "", <<>>)
       ELSE IF hits = {} THEN Event("get", p, 404, "", <<>>)
       ELSE LET rec == d.audit_logs[CHOOSE k \in hits : TRUE]
            IN IF ScanAuditLog(rec).err THEN Event("get", p, 500, "", <<>>)
               ELSE Event("get", p, 200, "", <<ScanAuditLog(rec).log>>)

getAuditLog(p) ==
    /\ Idle
    /\ pc = "serving"
    /\ last' = getAuditLogResult(db, p)
    /\ UNCHANGED <<pc, config, db, tx, clock>>

\* ------------------------------------------------------- GET /api/logs
\* the limit and offset query parameters a client sends ("" is <<>>)
LimitInputs  == {<<>>, <<"1">>, <<"2">>, <<"x">>, <<"1", ";", "DELETE FROM audit_logs">>}
OffsetInputs == {<<>>, <<"1">>}

SelectHead == <<"SELECT", "FROM audit_logs", "ORDER BY timestamp DESC">>

\* the statement text getAuditLogs builds with Sprintf(" LIMIT %s") and
\* Sprintf(" OFFSET %s")
ListQuery(limit, offset) ==
    SelectHead
      \o (IF limit # <<>> THEN <<"LIMIT">> \o limit ELSE <<>>)
      \o (IF offset # <<>> THEN <<"OFFSET">> \o offset ELSE <<>>)

\* db.Query without arguments sends the text as one simple-protocol message:
\* the database splits it at the semicolons and runs every statement.
RECURSIVE SplitStatements(_, _)
SplitStatements(q, cur) ==
    IF q = <<>> THEN (IF cur = <<>> THEN <<>> ELSE <<cur>>)
    ELSE IF Head(q) = ";" THEN <<cur>> \o SplitStatements(Tail(q), <<>>)
    ELSE SplitStatements(Tail(q), Append(cur, Head(q)))

NoLimit == 0 - 1

\* the database's parse of one statement
ParseStatement(st) ==
    LET rest == SubSeq(st, 4, Len(st))
        bad  == [kind |-> "error", limit |-> NoLimit, offset |-> 0]
    IN IF st = <<"DELETE FROM audit_logs">>
       THEN [kind |-> "delete", limit |-> NoLimit, offset |-> 0]
       ELSE IF Len(st) < 3 \/ SubSeq(st, 1, 3) # SelectHead THEN bad
       ELSE IF rest = <<>> THEN [kind |-> "select", limit |-> NoLimit, offset |-> 0]
       ELSE IF Len(rest) = 2 /\ rest[1] = "LIMIT" /\ rest[2] \in Digits
            THEN [kind |-> "select", limit |-> DigitVal(rest[2]), offset |-> 0]
       ELSE IF Len(rest) = 2 /\ rest[1] = "OFFSET" /\ rest[2] \in Digits
            THEN [kind |-> "select", limit |-> NoLimit, offset |-> DigitVal(rest[2])]
       ELSE IF Len(rest) = 4 /\ rest[1] = "LIMIT" /\ rest[2] \in Digits
                             /\ rest[3] = "OFFSET" /\ rest[4] \in Digits
            THEN [kind |-> "select", limit |-> DigitVal(rest[2]), offset |-> DigitVal(rest[4])]
       ELSE bad

\* the orders ORDER BY timestamp DESC may deliver: every arrangement of the
\* rows with non-increasing timestamps
Orderings(logs) ==
    {o \in [1..Len(logs) -> 1..Len(logs)] :
        /\ \A a, b \in 1..Len(logs) : a # b => o[a] # o[b]
        /\ \A a, b \in 1..Len(logs) : a < b => logs[o[a]].timestamp >= logs[o[b]].timestamp}

Min(a, b) == IF a < b THEN a ELSE b

\* rows of the SELECT under the delivery order o
SelectRows(logs, o, st) ==
    LET all  == [k \in 1..Len(logs) |-> logs[o[k]]]
        from == st.offset + 1
        to   == IF st.limit = NoLimit THEN Len(all) ELSE Min(Len(all), st.offset + st.limit)
    IN SubSeq(all, from, to)

\* db.Query(query): a syntax error anywhere rejects the whole message; else
\* the rows of the first statement come back and the later ones are executed
RunQuery(d, query, o) ==
    LET sts    == SplitStatements(query, <<>>)
        parsed == [k \in 1..Len(sts) |-> ParseStatement(sts[k])]
    IN IF \E k \in 1..Len(sts) : parsed[k].kind = "error"
       THEN [err |-> TRUE, rows |-> <<>>, db |-> d]
       ELSE [err  |-> FALSE,
             rows |-> SelectRows(d.audit_logs, o, parsed[1]),
             db   |-> IF \E k \in 2..Len(sts) : parsed[k].kind = "delete"
                      THEN [d EXCEPT !.audit_logs = <<>>] ELSE d]

\* The handler under the delivery order o: the response and the database the
\* query leaves.
getAuditLogsResult(d, limit, offset, o) ==
    LET r == RunQuery(d, ListQuery(limit, offset), o)
    IN [db    |-> r.db,
        event |-> IF r.err THEN Event("list", <<limit, offset>>, 500, "", <<>>)
                  ELSE IF \E k \in 1..Len(r.rows) : ScanAuditLog(r.rows[k]).err
                       THEN Event("list", <<limit, offset>>, 500, "", <<>>)
                       ELSE Event("list", <<limit, offset>>, 200, "", r.rows)]

getAuditLogs(limit, offset) ==
    /\ Idle
    /\ pc = "serving"
    /\ \E o \in Orderings(db.audit_logs) :
          LET r == getAuditLogsResult(db, limit, offset, o)
          IN /\ db' = r.db
             /\ last' = r.event
    /\ UNCHANGED <<pc, config, tx, clock>>

\* ------------------------------------------------ POST /api/revert/{id}
\* store failures of the connection during a request: db.Begin fails, or
\* tx.Commit does.  A response names the failure that struck, if one did.
Faults == {"none", "begin", "commit"}

\* SELECT table_name FROM target_tables WHERE id = $1, scanned into tableName
ResolveTable(d, targetTableID) ==
    LET hits == {r \in d.target_tables.rows : r[1] = targetTableID}
    IN IF ~d.target_tables.exists \/ hits = {}
       THEN [err |-> TRUE, tableName |-> ""]
       ELSE [err |-> FALSE, tableName |-> (CHOOSE r \in hits : TRUE)[2]]

\* tx.Exec of the UPDATE/DELETE branch.  The text is
\*   INSERT INTO t SELECT * FROM json_populate_record(null::t, $1)
\*   ON CONFLICT (id) DO UPDATE SET (SELECT string_agg(...) FROM ...)
\* and SET must be followed by column = value or (columns) = value: the
\* database rejects it at parse time, whatever the table and the snapshot.
ExecRestore(d, tableName, oldValue, now) == [err |-> TRUE, db |-> d]

\* json.Unmarshal(oldValue, &id) into an int: succeeds on a JSON number
\* (<<n>>) only; NULL and a row object are errors
JsonUnmarshalInt(v) ==
    IF Len(v) = 1 THEN [err |-> FALSE, n |-> v[1]] ELSE [err |-> TRUE, n |-> 0]

\* tx.Exec("DELETE FROM t WHERE id = $1"): a row-level trigger fires only
\* for a row that is deleted
ExecDelete(d, tableName, id, now) ==
    IF tableName \notin TableNames THEN [err |-> TRUE, db |-> d]
    ELSE IF id \notin RowIds \/ d.tables[tableName][id] = NoRow
         THEN [err |-> FALSE, db |-> d]
         ELSE [err |-> FALSE, db |-> WriteRow(d, tableName, "DELETE", id, NoRow, "app", now)]

Answer(p, fault, status, stage, d) ==
    [event |-> Event("revert", <<p, fault>>, status, stage, <<>>), db |-> d]

\* What the restore statement is written to do (INSERT ... ON CONFLICT (id)
\* DO UPDATE over the snapshot's columns): overwrite the row of the
\* snapshot's key, or create it.
UpsertRow(d, tableName, oldValue, now) ==
    IF tableName \notin TableNames \/ oldValue = NULL THEN [err |-> TRUE, db |-> d]
    ELSE [err |-> FALSE,
          db  |-> WriteRow(d, tableName,
                           IF d.tables[tableName][oldValue[1]] = NoRow
                           THEN "INSERT" ELSE "UPDATE",
                           oldValue[1], oldValue[2], "app", now)]

\* revertChange with a restore statement that is valid SQL and is executed
\* with db.Exec instead of tx.Exec: it is committed on its own, and a
\* failing tx.Commit answers 500 with the row already restored.
RevertOutcomeAutocommit(d, p, fault, now) ==
    LET id   == Atoi(p)
        hits == SelectById(d.audit_logs, id.n)
    IN IF id.err THEN Answer(p, "none", 400, "parse", d)
       ELSE IF fault = "begin" THEN Answer(p, "begin", 500, "begin", d)
       ELSE IF hits = {} THEN Answer(p, "none", 404, "fetch", d)
       ELSE
         LET rec == d.audit_logs[CHOOSE k \in hits : TRUE]
             tn  == ResolveTable(d, rec.target_table_id)
             ex  == UpsertRow(d, tn.tableName, rec.old_value, now)
         IN IF ScanAuditLog(rec).err THEN Answer(p, "none", 500, "fetch", d)
            ELSE IF tn.err THEN Answer(p, "none", 500, "resolve", d)
            ELSE IF ex.err THEN Answer(p, "none", 500, "apply", d)
            ELSE IF fault = "commit" THEN Answer(p, "commit", 500, "commit", ex.db)
            ELSE Answer(p, "none", 200, "done", ex.db)

\* The handler: the response and the database it leaves.  Every return after
\* db.Begin runs the deferred tx.Rollback; only tx.Commit keeps the writes.
RevertOutcome(d, p, fault, now) ==
    LET id   == Atoi(p)
        hits == SelectById(d.audit_logs, id.n)
    IN IF id.err THEN Answer(p, "none", 400, "parse", d)
       ELSE IF fault = "begin" THEN Answer(p, "begin", 500, "begin", d)
       ELSE IF hits = {} THEN Answer(p, "none", 404, "fetch", d)
       ELSE
         LET rec == d.audit_logs[CHOOSE k \in hits : TRUE]
             tn  == ResolveTable(d, rec.target_table_id)
             num == JsonUnmarshalInt(rec.old_value)
             ex  == IF rec.operation \in {"UPDATE", "DELETE"}
                    THEN ExecRestore(d, tn.tableName, rec.old_value, now)
                    ELSE ExecDelete(d, tn.tableName, num.n, now)
         IN IF ScanAuditLog(rec).err THEN Answer(p, "none", 500, "fetch", d)
            ELSE IF tn.err THEN Answer(p, "none", 500, "resolve", d)
            ELSE IF rec.operation \notin {"UPDATE", "DELETE", "INSERT"}
                 THEN Answer(p, "none", 400, "apply", d)
            ELSE IF rec.operation = "INSERT" /\ num.err
                 THEN Answer(p, "none", 500, "apply", d)
            ELSE IF ex.err THEN Answer(p, "none", 500, "apply", d)
            ELSE IF fault = "commit" THEN Answer(p, "commit", 500, "commit", d)
            ELSE Answer(p, "none", 200, "done", ex.db)

revertChange(p, fault) ==
    /\ Idle
    /\ pc = "serving"
    /\ LET r == RevertOutcome(db, p, fault, clock)
       IN /\ db' = r.db
          /\ last' = r.event
    /\ UNCHANGED <<pc, config, tx, clock>>

\* ------------------------------------- POST /api/revert/{id}, step by step
\* The same handler, one action per stretch of its code between two
\* database round trips.  The request in progress is last with status 0; its
\* stage says how far the handler is and its body holds the handler's locals.
Progress(p, stage, locals) == Event("revert", <<p, "none">>, 0, stage, locals)

\* the router hands the request to revertChange
revertReceive(p) ==
    /\ Idle
    /\ pc = "serving"
    /\ last' = Progress(p, "Pending", <<>>)
    /\ UNCHANGED <<pc, config, db, tx, clock>>

\* the fetch with the record found goes straight on to the statement
revertFetchSkipsResolve(fault) ==
    /\ InProgress
    /\ last.stage = "Pending"
    /\ LET p    == last.arg[1]
           id   == Atoi(p)
           hits == SelectById(db.audit_logs, id.n)
       IN last' =
            IF id.err THEN Answer(p, "none", 400, "parse", db).event
            ELSE IF fault = "begin" THEN Answer(p, "begin", 500, "begin", db).event
            ELSE IF hits = {} THEN Answer(p, "none", 404, "fetch", db).event
            ELSE Progress(p, "Applying", <<db.audit_logs[CHOOSE k \in hits : TRUE], "users">>)
    /\ UNCHANGED <<pc, config, db, tx, clock>>

\* lines 228-258: Atoi, db.Begin, the SELECT of the record and its Scan
revertFetch(fault) ==
    /\ InProgress
    /\ last.stage = "Pending"
    /\ LET p    == last.arg[1]
           id   == Atoi(p)
           hits == SelectById(db.audit_logs, id.n)
           rec  == db.audit_logs[CHOOSE k \in hits : TRUE]
       IN last' =
            IF id.err THEN Answer(p, "none", 400, "parse", db).event
            ELSE IF fault = "begin" THEN Answer(p, "begin", 500, "begin", db).event
            ELSE IF hits = {} THEN Answer(p, "none", 404, "fetch", db).event
            ELSE IF ScanAuditLog(rec).err THEN Answer(p, "none", 500, "fetch", db).event
            ELSE Progress(p, "Resolving", <<rec>>)
    /\ UNCHANGED <<pc, config, db, tx, clock>>

\* lines 260-265: the lookup of the table name
revertResolve ==
    /\ InProgress
    /\ last.stage = "Resolving"
    /\ LET p   == last.arg[1]
           rec == last.body[1]
           tn  == ResolveTable(db, rec.target_table_id)
       IN last' = IF tn.err THEN Answer(p, "none", 500, "resolve", db).event
                  ELSE Progress(p, "Applying", <<rec, tn.tableName>>)
    /\ UNCHANGED <<pc, config, db, tx, clock>>

\* lines 267-300: the statement of the record's operation, tx.Commit and the
\* 200 response; every return before the commit rolls the statement back
revertApply(fault) ==
    /\ InProgress
    /\ last.stage = "Applying"
    /\ LET p         == last.arg[1]
           rec       == last.body[1]
           tableName == last.body[2]
           num       == JsonUnmarshalInt(rec.old_value)
           ex        == IF rec.operation \in {"UPDATE", "DELETE"}
                        THEN ExecRestore(db, tableName, rec.old_value, clock)
                        ELSE ExecDelete(db, tableName, num.n, clock)
           r == IF rec.operation \notin {"UPDATE", "DELETE", "INSERT"}
                THEN Answer(p, "none", 400, "apply", db)
                ELSE IF rec.operation = "INSERT" /\ num.err
                     THEN Answer(p, "none", 500, "apply", db)
                ELSE IF ex.err THEN Answer(p, "none", 500, "apply", db)
                ELSE IF fault = "commit" THEN Answer(p, "commit", 500, "commit", db)
                ELSE Answer(p, "none", 200, "done", ex.db)
       IN /\ db' = r.db
          /\ last' = r.event
    /\ UNCHANGED <<pc, config, tx, clock>>

Startup ==
    \/ loadConfig
    \/ initDB
    \/ createAuditTable
    \/ createTriggerFunction
    \/ createTriggers
    \/ startServer

Client ==
    \/ \E c \in Clients : ClientBegin(c)
    \/ \E c \in Clients, t \in TableNames, op \in {"INSERT", "UPDATE", "DELETE"},
          i \in RowIds, n \in Names, commit \in BOOLEAN, denied \in BOOLEAN :
          ClientWrite(c, t, op, i, n, commit, denied)

Server ==
    \/ \E p \in IdInputs : getAuditLog(p)
    \/ \E limit \in LimitInputs, offset \in OffsetInputs : getAuditLogs(limit, offset)
    \/ \E p \in IdInputs, fault \in Faults : revertChange(p, fault)

Next == Startup \/ Client \/ Server \/ Deliver

Spec == Init /\ [][Next]_vars

\* ----------------------------------------------------------------- restart
\* The serving process is stopped and main is run again over the same config
\* file and the same database: loadConfig yields the list it yielded before,
\* and the run goes on with initDB and the setup.
Restart ==
    /\ Idle
    /\ pc = "serving"
    /\ pc' = "initDB"
    /\ last' = Event("restart", <<>>, 0, "", <<>>)
    /\ UNCHANGED <<config, db, tx, clock>>

NextRestart == Startup \/ Client \/ Restart \/ Deliver

SpecRestart == Init /\ [][NextRestart]_vars

\* The handler goroutine of a received request runs on: each of its steps,
\* once it can be taken, is taken.
RevertSteps ==
    \/ \E fault \in {"none", "begin"} : revertFetch(fault)
    \/ revertResolve
    \/ \E fault \in {"none", "commit"} : revertApply(fault)

NextRevert ==
    \/ Startup
    \/ Client
    \/ \E p \in IdInputs : revertReceive(p)
    \/ RevertSteps
    \/ Deliver

SpecRevert == Init /\ [][NextRevert]_vars /\ WF_vars(RevertSteps)

\* ------------------------------------------------------ concurrent sessions
\* Two database sessions write to the target tables, each in a transaction
\* of its own, while the server starts and runs.
Sessions == {"c1", "c2"}

InitConcurrent ==
    /\ pc = "loadConfig"
    /\ config = [TargetTables |-> <<>>]
    /\ \E reg \in Registrations :
          db = [ audit_table   |-> FALSE,
                 trigger_func  |-> FALSE,
                 triggers      |-> {},
                 tables        |-> [t \in TableNames |-> [i \in RowIds |-> NoRow]],
                 audit_logs    |-> <<>>,
                 seq           |-> 0,
                 target_tables |-> reg ]
    /\ tx = [c \in Sessions |-> NoTx]
    /\ clock = 0
    /\ last = Nothing

ClientConcurrent ==
    \/ \E c \in Sessions : ClientBegin(c)
    \/ \E c \in Sessions, t \in TableNames, op \in {"INSERT", "UPDATE", "DELETE"},
          i \in RowIds, n \in Names, commit \in BOOLEAN, denied \in BOOLEAN :
          ClientWrite(c, t, op, i, n, commit, denied)

NextConcurrent == Startup \/ ClientConcurrent \/ Deliver

SpecConcurrent == InitConcurrent /\ [][NextConcurrent]_vars

\* ================================================================ claims
Range(f) == {f[k] : k \in DOMAIN f}

\* the table is in the configured list of the running server
Registered(t) == pc = "serving" /\ t \in Range(config.TargetTables)

\* the record a revert or get request names, in the store d ({} when none)
Named(d, p) == {d.audit_logs[k] : k \in SelectById(d.audit_logs, Atoi(p).n)}

\* a revert step, of a request without a malformed id or a store fault, on
\* a record whose table reference resolves
RevertOf(rec) ==
    /\ last'.op = "revert"
    /\ ~Atoi(last'.arg[1]).err
    /\ last'.arg[2] = "none"
    /\ rec \in Named(db, last'.arg[1])
    /\ ~ResolveTable(db, rec.target_table_id).err

TargetOf(rec) == ResolveTable(db, rec.target_table_id).tableName

\* C1: every committed row write on a table of the configured list appends
\* exactly one audit record, with the write's operation, the row before the
\* write as old_value and the row after it as new_value.
C1_EveryWriteAudited ==
    [][ (last'.op = "write" /\ last'.status = 1 /\ Registered(last'.arg[1]))
        => LET t == last'.arg[1]
               i == last'.arg[3]
               n == Len(db.audit_logs)
           IN /\ Len(db'.audit_logs) = n + 1
              /\ SubSeq(db'.audit_logs, 1, n) = db.audit_logs
              /\ db'.audit_logs[n + 1].operation = last'.arg[2]
              /\ db'.audit_logs[n + 1].old_value = Snapshot(db.tables[t], i)
              /\ db'.audit_logs[n + 1].new_value = Snapshot(db'.tables[t], i) ]_vars

\* C2: a revert request that ends in a failure (any status but 200) leaves
\* every target table and the audit store as they were before the request.
C2_FailedRevertChangesNothing ==
    [][ (last'.op = "revert" /\ last'.status # 200)
        => /\ db'.tables = db.tables
           /\ db'.audit_logs = db.audit_logs ]_vars

\* the failure is the restore statement's, on a resolved table whose row is there
C2_Witness ==
    /\ last.op = "revert"
    /\ last.status = 500
    /\ last.stage = "apply"
    /\ \E rec \in Named(db, last.arg[1]) :
          /\ rec.operation = "UPDATE"
          /\ db.tables[ResolveTable(db, rec.target_table_id).tableName][rec.old_value[1]] # NoRow

\* C3: the revert of an UPDATE record whose row exists succeeds and leaves
\* the row equal to the record's old_value.
C3_RevertUpdateRestores ==
    [][ last'.op = "revert" => \A rec \in Named(db, last'.arg[1]) :
          ( /\ RevertOf(rec)
            /\ rec.operation = "UPDATE"
            /\ db.tables[TargetOf(rec)][rec.old_value[1]] # NoRow )
          => /\ last'.status = 200
             /\ Snapshot(db'.tables[TargetOf(rec)], rec.old_value[1]) = rec.old_value ]_vars

\* C4: the revert of a DELETE record (or of an UPDATE record) whose row does
\* not exist succeeds and re-creates the row from the record's old_value.
C4_RevertDeleteRecreates ==
    [][ last'.op = "revert" => \A rec \in Named(db, last'.arg[1]) :
          ( /\ RevertOf(rec)
            /\ rec.operation \in {"DELETE", "UPDATE"}
            /\ db.tables[TargetOf(rec)][rec.old_value[1]] = NoRow )
          => /\ last'.status = 200
             /\ Snapshot(db'.tables[TargetOf(rec)], rec.old_value[1]) = rec.old_value ]_vars

\* C5: after the revert of an INSERT record the row that the insert created
\* is not in the target table.
C5_RevertInsertRemoves ==
    [][ last'.op = "revert" => \A rec \in Named(db, last'.arg[1]) :
          ( RevertOf(rec) /\ rec.operation = "INSERT" )
          => db'.tables[TargetOf(rec)][rec.new_value[1]] = NoRow ]_vars

\* C6: no list, get or revert request removes or changes a record of the
\* audit store: the store before the request is a prefix of the store after.
C6_AuditStoreAppendOnly ==
    [][ last'.op \in {"list", "get", "revert"}
        => /\ Len(db'.audit_logs) >= Len(db.audit_logs)
           /\ SubSeq(db'.audit_logs, 1, Len(db.audit_logs)) = db.audit_logs ]_vars

\* No revert request answers 200: the case of a successful revert, which C7
\* is about, arises in no reachable state.
NoRevertSucceeds == last.op = "revert" => last.status # 200

\* C8: the status of a revert response is the one its outcome dictates: 400
\* for a malformed id, 404 for an absent record and for a fetched record whose
\* table reference target_tables has no row for, 200 only after the commit,
\* 500 for store failures.
C8_RevertStatusByOutcome ==
    [][ last'.op = "revert"
        => LET p     == last'.arg[1]
               fault == last'.arg[2]
               found == Named(db, p)
           IN /\ Atoi(p).err => last'.status = 400
              /\ (~Atoi(p).err /\ fault # "begin" /\ found = {}) => last'.status = 404
              /\ (~Atoi(p).err /\ fault # "begin" /\ db.target_tables.exists /\
                    \E rec \in found : /\ ~ScanAuditLog(rec).err
                                       /\ ResolveTable(db, rec.target_table_id).err)
                 => last'.status = 404
              /\ last'.status = 200 => last'.stage = "done"
              /\ (last'.status = 500 /\ last'.stage = "resolve") => ~db.target_tables.exists ]_vars

\* C9: a get request for a well-formed id answers 404 when no record has the
\* id, and else 200 with the record of that id.
C9_GetRecordById ==
    (last.op = "get" /\ ~Atoi(last.arg).err)
    => IF Named(db, last.arg) = {} THEN last.status = 404
       ELSE /\ last.status = 200
            /\ Len(last.body) = 1
            /\ last.body[1].id = Atoi(last.arg).n

\* a numeric limit or offset parameter
Numeric(param) == Len(param) = 1 /\ param[1] \in Digits

\* C10: a list request with a numeric limit n answers with at most n records
\* in non-increasing timestamp order.
C10_ListLimitOrdered ==
    (last.op = "list" /\ Numeric(last.arg[1]) /\ (last.arg[2] = <<>> \/ Numeric(last.arg[2])))
    => /\ last.status = 200
       /\ Len(last.body) <= DigitVal(last.arg[1][1])
       /\ \A a, b \in 1..Len(last.body) :
             a < b => last.body[a].timestamp >= last.body[b].timestamp

\* a limit or offset parameter that is sent and is not a non-negative
\* integer literal
Malformed(param) ==
    param # <<>> /\ \E k \in 1..Len(param) : param[k] \notin Digits

Sanitized(param) == IF Malformed(param) THEN <<>> ELSE param

\* C11: a list request with a limit or offset that is not a non-negative
\* integer literal is rejected with a validation error (400) and changes
\* nothing, or is answered as the request without that value is: the value's
\* text is never run as part of the statement.
C11_PaginationNeverForwarded ==
    [][ (last'.op = "list" /\ (Malformed(last'.arg[1]) \/ Malformed(last'.arg[2])))
        => \/ last'.status = 400 /\ db' = db
           \/ \E o \in Orderings(db.audit_logs) :
                 LET r == getAuditLogsResult(db, Sanitized(last'.arg[1]),
                                             Sanitized(last'.arg[2]), o)
                 IN /\ db' = r.db
                    /\ last'.status = r.event.status
                    /\ last'.body = r.event.body ]_vars

\* C12: a run of the setup over a database that an earlier run over the same
\* list has set up (the tables have triggers when createTriggers starts)
\* completes without error and leaves every table of the list with its
\* trigger.  (A table cannot carry two triggers named audit_trigger: the
\* second CREATE TRIGGER is an error, never a duplicate.)
C12_SetupIdempotent ==
    [][ (pc = "createTriggers" /\ pc' # pc /\ db.triggers # {})
        => /\ pc' = "startServer"
           /\ db'.triggers = Range(config.TargetTables) ]_vars

\* C13: the audit records are those of the committed writes on the tables of
\* the configured list, one each: such a write appends exactly one record, a
\* write that is rolled back or whose capture fails leaves the tables and the
\* store as they were, and no other step adds a record.
C13_CaptureAtomicWithWrite ==
    [][ /\ (last'.op = "write" /\ last'.status = 1 /\ Registered(last'.arg[1]))
           => Len(db'.audit_logs) = Len(db.audit_logs) + 1
        /\ (last'.op = "write" /\ last'.status = 0)
           => db'.audit_logs = db.audit_logs /\ db'.tables = db.tables
        /\ Len(db'.audit_logs) > Len(db.audit_logs)
           => last'.op = "write" /\ last'.status = 1 ]_vars

\* The two halves of C13 that do not depend on which tables carry a trigger:
\* a rolled back write and a write whose capture failed leave no record and
\* no row change.
UncommittedWriteLeavesNothing ==
    [][ (last'.op = "write" /\ last'.status = 0)
        => db'.audit_logs = db.audit_logs /\ db'.tables = db.tables ]_vars

\* C14: once the setup has completed, every table of the configured list
\* has the capture trigger, whatever the list.
C14_EveryListedTableHasTrigger ==
    pc \in {"startServer", "serving"} => Range(config.TargetTables) \subseteq db.triggers

C16_TableRefResolvesToWrittenTable ==
    [][ ( /\ last'.op = "write" /\ last'.status = 1 /\ last'.arg[1] \in db.triggers
          /\ \A t \in TableNames : \E r \in db.target_tables.rows : r[2] = t )
        => LET rec == db'.audit_logs[Len(db'.audit_logs)]
               tn  == ResolveTable(db', rec.target_table_id)
           IN ~tn.err /\ tn.tableName = last'.arg[1] ]_vars

\* the state of the revert request that last describes
Phase(e) ==
    IF e.op # "revert" THEN "None"
    ELSE IF e.status = 0 THEN e.stage
    ELSE IF e.status = 200 THEN "Committed"
    ELSE "Failed"

PhaseEdges ==
    { <<"None", "Pending">>, <<"Pending", "Resolving">>, <<"Resolving", "Applying">>,
      <<"Applying", "Committed">>,
      <<"Pending", "Failed">>, <<"Resolving", "Failed">>, <<"Applying", "Failed">>,
      <<"Committed", "None">>, <<"Failed", "None">> }

\* C17: a revert request goes Pending -> Resolving -> Applying -> Committed
\* or Failed and no other way; the database changes only in the step from
\* Applying to Committed; once Committed or Failed the one response is what
\* is delivered, with no further step of the request; and every received
\* request eventually is Committed or Failed.
C17_RevertStateMachine ==
    /\ [][ /\ Phase(last') # Phase(last) => <<Phase(last), Phase(last')>> \in PhaseEdges
           /\ Phase(last) \in {"Committed", "Failed"} => last' = Nothing
           /\ Phase(last) \in {"Pending", "Resolving", "Applying"}
              => last'.op = "revert" /\ last'.arg[1] = last.arg[1]
           /\ (Phase(last) # "None" /\ db' # db)
              => Phase(last) = "Applying" /\ Phase(last') = "Committed" ]_vars
    /\ (InProgress ~> Phase(last) \in {"Committed", "Failed"})

\* a request that was fetched, resolved and failed at its statement
C17_Witness ==
    /\ Phase(last) = "Failed"
    /\ last.stage = "apply"
    /\ \E rec \in Named(db, last.arg[1]) : ~ResolveTable(db, rec.target_table_id).err

\* The steps of a request end as revertChange taken in one piece does: the
\* response and the database are those of RevertOutcome for some fault.
RevertStepsAgreeWithOutcome ==
    [][ (InProgress /\ ~InProgress')
        => \E fault \in Faults :
              LET r == RevertOutcome(db, last.arg[1], fault, clock)
              IN last' = r.event /\ db' = r.db ]_vars

\* the three request kinds of the HTTP server
Requests == {"list", "get", "revert"}

\* C19: a request is answered only by a process that has the audit table,
\* the trigger function and the trigger of every table of its list
\* installed; a process whose startup failed stays stopped and answers none.
C19_StartupOrderedFailStop ==
    [][ /\ last'.op \in Requests
           => /\ pc' = "serving"
              /\ db'.audit_table /\ db'.trigger_func
              /\ Range(config'.TargetTables) \subseteq db'.triggers
        /\ pc = "fatal" => pc' = "fatal" /\ last'.op \notin Requests ]_vars

\* The part of C19 that does not depend on which triggers the setup leaves:
\* requests are answered only after every startup step has run without
\* error, in the order of main, and never after a fatal error.
ServesOnlyAfterStartupSteps ==
    [][ /\ last'.op \in Requests
           => pc = "serving" /\ db.audit_table /\ db.trigger_func /\ db.triggers # {}
        /\ (pc' = "serving" /\ pc # "serving") => pc = "startServer"
        /\ (pc' = "startServer" /\ pc # "startServer")
           => /\ pc = "createTriggers"
              /\ ~InstallTriggers(config.TargetTables, db.triggers).err
              /\ db.audit_table /\ db.trigger_func
        /\ pc = "fatal" => pc' = "fatal" /\ last'.op \notin Requests ]_vars

\* C20: audit records keep their ids, the ids are pairwise distinct, and a
\* record with a smaller id never has a later timestamp, also when the
\* writes come from transactions that are open at the same time.
C20_IdsAndTimestampsAgree ==
    [][ /\ \A k \in 1..Min(Len(db.audit_logs), Len(db'.audit_logs)) :
              db'.audit_logs[k].id = db.audit_logs[k].id
        /\ \A a, b \in 1..Len(db'.audit_logs) :
              /\ a # b => db'.audit_logs[a].id # db'.audit_logs[b].id
              /\ db'.audit_logs[a].id < db'.audit_logs[b].id
                 => db'.audit_logs[a].timestamp <= db'.audit_logs[b].timestamp ]_vars

====
